---- MODULE Spec2Model ----
(***************************************************************************)
(* A model of ni-stem/_internal.py: StemCreator (the constructor that      *)
(* merges the stem metadata, and save, which transcodes, multiplexes and   *)
(* tags the container) and StemMetadataViewer (which reads the embedded    *)
(* metadata back).                                                         *)
(*                                                                         *)
(* Text is a sequence of one-character strings, so that json.dumps,        *)
(* json.load, base64, int(), str() and os.path.splitext are computed and   *)
(* not assumed.  A path is a sequence of components, the base name first   *)
(* and then one component per dotted suffix: <<"a", ".stem", ".m4a">> is   *)
(* a.stem.m4a.                                                             *)
(***************************************************************************)
EXTENDS Integers, Sequences, FiniteSets, TLC

(***************************************************************************)
(* Bounds of the model.                                                    *)
(***************************************************************************)
\* the longest list of stem tracks in the runs that vary the metadata
MaxStems == 6
\* the longest "stems" list in a supplied metadata file
MaxSupplied == 5
\* the largest number of arbitrary fields in a tags file
MaxTagFields == 2
\* the longest list of stem tracks in the runs that vary the paths
MaxPathStems == 2

(***************************************************************************)
(* Text helpers.                                                           *)
(***************************************************************************)

\* s.startswith(lit) at position i (1-based)
HasAt(s, i, lit) ==
    /\ i + Len(lit) - 1 <= Len(s)
    /\ SubSeq(s, i, i + Len(lit) - 1) = lit

\* s.endswith(lit)
EndsWith(s, lit) ==
    /\ Len(lit) <= Len(s)
    /\ SubSeq(s, Len(s) - Len(lit) + 1, Len(s)) = lit

\* the printable ASCII characters, code 32 first ("grave" stands for the
\* backquote, code 96, which no text of this model holds)
AsciiTable ==
    << " ", "!", "\"", "#", "$", "%", "&", "'", "(", ")", "*", "+", ",", "-", ".", "/",
       "0", "1", "2", "3", "4", "5", "6", "7", "8", "9", ":", ";", "<", "=", ">", "?",
       "@", "A", "B", "C", "D", "E", "F", "G", "H", "I", "J", "K", "L", "M", "N", "O",
       "P", "Q", "R", "S", "T", "U", "V", "W", "X", "Y", "Z", "[", "\\", "]", "^", "_",
       "grave", "a", "b", "c", "d", "e", "f", "g", "h", "i", "j", "k", "l", "m", "n", "o",
       "p", "q", "r", "s", "t", "u", "v", "w", "x", "y", "z", "{", "|", "}", "~" >>

AsciiChars == { AsciiTable[i] : i \in 1..Len(AsciiTable) }

\* ord(c) and chr(n) on printable ASCII
Ord == [ c \in AsciiChars |-> 31 + (CHOOSE i \in 1..Len(AsciiTable) : AsciiTable[i] = c) ]

Chr(n) == AsciiTable[n - 31]

Digits == << "0", "1", "2", "3", "4", "5", "6", "7", "8", "9" >>

DigitChars == { Digits[i] : i \in 1..Len(Digits) }

DigitVal == [ c \in DigitChars |-> (CHOOSE i \in 1..Len(Digits) : Digits[i] = c) - 1 ]

RECURSIVE StrOfNat(_)
\* str(n) for n >= 0
StrOfNat(n) ==
    IF n < 10 THEN << Digits[n + 1] >>
    ELSE StrOfNat(n \div 10) \o << Digits[(n % 10) + 1] >>

RECURSIVE NatOfDigits(_, _)
\* the value of a string of decimal digits, acc the value read so far
NatOfDigits(s, acc) ==
    IF s = <<>> THEN acc
    ELSE NatOfDigits(Tail(s), 10 * acc + DigitVal[Head(s)])

\* whether int(s) accepts the text s (decimal digits; signs, blanks and
\* underscores do not occur in the texts of this model)
IsDecimal(s) ==
    /\ s # <<>>
    /\ \A i \in 1..Len(s) : s[i] \in DigitChars

(***************************************************************************)
(* The stem metadata and its JSON form.                                    *)
(***************************************************************************)
\* a stem entry {"name": ..., "color": ...}
StemEntry(name, color) == [ name |-> name, color |-> color ]

\* StemCreator._defaultMetadata
DefaultMetadata ==
    << StemEntry(<<"D","r","u","m","s">>, <<"#","0","0","9","E","7","3">>),
       StemEntry(<<"B","a","s","s">>, <<"#","D","5","5","E","0","0">>),
       StemEntry(<<"O","t","h","e","r">>, <<"#","C","C","7","9","A","7">>),
       StemEntry(<<"V","o","x">>, <<"#","5","6","B","4","E","9">>) >>

RECURSIVE JsonEscape(_)
\* the body of a JSON string: json.dumps escapes the quote and the backslash
JsonEscape(s) ==
    IF s = <<>> THEN <<>>
    ELSE (IF Head(s) \in { "\"", "\\" } THEN << "\\", Head(s) >> ELSE << Head(s) >>)
         \o JsonEscape(Tail(s))

JsonString(s) == << "\"" >> \o JsonEscape(s) \o << "\"" >>

NameKey == << "\"", "n", "a", "m", "e", "\"", ":", " " >>

ColorKey == << "\"", "c", "o", "l", "o", "r", "\"", ":", " " >>

StemsKey == << "\"", "s", "t", "e", "m", "s", "\"", ":", " " >>

JsonEntry(e) ==
    << "{" >> \o NameKey \o JsonString(e.name) \o << ",", " " >>
              \o ColorKey \o JsonString(e.color) \o << "}" >>

RECURSIVE JsonEntries(_)
JsonEntries(es) ==
    IF es = <<>> THEN <<>>
    ELSE IF Len(es) = 1 THEN JsonEntry(es[1])
    ELSE JsonEntry(es[1]) \o << ",", " " >> \o JsonEntries(Tail(es))

\* json.dumps(self._metadata) for a dict {"stems": [...]}
JsonDumps(md) ==
    << "{" >> \o StemsKey \o << "[" >> \o JsonEntries(md.stems) \o << "]", "}" >>

\* the result of a failed parse
ParseError == [ ok |-> FALSE ]

RECURSIVE ParseStringBody(_, _, _)
\* reads a JSON string body from position i, acc the characters read so far;
\* [ok, val, next], next the position after the closing quote
ParseStringBody(s, i, acc) ==
    IF i > Len(s) THEN ParseError
    ELSE IF s[i] = "\"" THEN [ ok |-> TRUE, val |-> acc, next |-> i + 1 ]
    ELSE IF s[i] = "\\"
         THEN IF i + 1 <= Len(s) /\ s[i + 1] \in { "\"", "\\" }
              THEN ParseStringBody(s, i + 2, Append(acc, s[i + 1]))
              ELSE ParseError
    ELSE ParseStringBody(s, i + 1, Append(acc, s[i]))

ParseString(s, i) ==
    IF HasAt(s, i, << "\"" >>) THEN ParseStringBody(s, i + 1, <<>>) ELSE ParseError

\* one {"name": "...", "color": "..."} object from position i
ParseEntry(s, i) ==
    IF ~ HasAt(s, i, << "{" >> \o NameKey) THEN ParseError
    ELSE LET n == ParseString(s, i + 1 + Len(NameKey))
         IN  IF ~ n.ok THEN ParseError
             ELSE IF ~ HasAt(s, n.next, << ",", " " >> \o ColorKey) THEN ParseError
             ELSE LET c == ParseString(s, n.next + 2 + Len(ColorKey))
                  IN  IF ~ c.ok THEN ParseError
                      ELSE IF ~ HasAt(s, c.next, << "}" >>) THEN ParseError
                      ELSE [ ok |-> TRUE, val |-> StemEntry(n.val, c.val),
                             next |-> c.next + 1 ]

RECURSIVE ParseEntries(_, _, _)
\* the elements of the "stems" array from position i, up to its "]"
ParseEntries(s, i, acc) ==
    IF HasAt(s, i, << "]" >>) /\ acc = <<>>
    THEN [ ok |-> TRUE, val |-> acc, next |-> i + 1 ]
    ELSE LET e == ParseEntry(s, i)
         IN  IF ~ e.ok THEN ParseError
             ELSE IF HasAt(s, e.next, << ",", " " >>)
                  THEN ParseEntries(s, e.next + 2, Append(acc, e.val))
             ELSE IF HasAt(s, e.next, << "]" >>)
                  THEN [ ok |-> TRUE, val |-> Append(acc, e.val), next |-> e.next + 1 ]
             ELSE ParseError

\* json.load of a stem-metadata document, read from position `from` of the
\* text: [ok, val] with val the dict {"stems": [...]}
JsonLoad(s, from) ==
    IF ~ HasAt(s, from, << "{" >> \o StemsKey \o << "[" >>) THEN ParseError
    ELSE LET es == ParseEntries(s, from + 2 + Len(StemsKey), <<>>)
         IN  IF ~ es.ok THEN ParseError
             ELSE IF HasAt(s, es.next, << "}" >>) /\ es.next = Len(s)
                  THEN [ ok |-> TRUE, val |-> [ stems |-> es.val ] ]
             ELSE ParseError

(***************************************************************************)
(* base64, as base64.b64encode computes it and as the multiplexer decodes  *)
(* it.                                                                     *)
(***************************************************************************)
B64Table ==
    << "A", "B", "C", "D", "E", "F", "G", "H", "I", "J", "K", "L", "M", "N", "O", "P",
       "Q", "R", "S", "T", "U", "V", "W", "X", "Y", "Z", "a", "b", "c", "d", "e", "f",
       "g", "h", "i", "j", "k", "l", "m", "n", "o", "p", "q", "r", "s", "t", "u", "v",
       "w", "x", "y", "z", "0", "1", "2", "3", "4", "5", "6", "7", "8", "9", "+", "/" >>

B64Chars == { B64Table[i] : i \in 1..Len(B64Table) }

B64Val == [ c \in B64Chars |-> (CHOOSE i \in 1..Len(B64Table) : B64Table[i] = c) - 1 ]

\* the k-th (0-based, most significant first) 6-bit group of a 24-bit number
Sextet(n, k) == B64Table[((n \div (64 ^ (3 - k))) % 64) + 1]

\* base64.b64encode of the ASCII text s: each group of three bytes gives four
\* characters, the last group padded with "="
B64Encode(s) ==
    LET n == Len(s)
        byte(i) == IF i <= n THEN Ord[s[i]] ELSE 0
        group(k) == byte(3 * k - 2) * 65536 + byte(3 * k - 1) * 256 + byte(3 * k)
    IN  [ j \in 1..(4 * ((n + 2) \div 3)) |->
            LET k == ((j - 1) \div 4) + 1
                p == (j - 1) % 4
            IN  IF p >= 2 /\ 3 * (k - 1) + p > n THEN "=" ELSE Sextet(group(k), p) ]

\* the bytes a base64 text stands for (a well-formed text, as B64Encode
\* writes it)
B64Decode(b) ==
    LET len == Len(b)
        pad == IF len = 0 THEN 0
               ELSE IF b[len - 1] = "=" THEN 2 ELSE IF b[len] = "=" THEN 1 ELSE 0
        v(j) == IF b[j] = "=" THEN 0 ELSE B64Val[b[j]]
        group(k) == v(4 * k - 3) * 262144 + v(4 * k - 2) * 4096
                        + v(4 * k - 1) * 64 + v(4 * k)
    IN  [ i \in 1..(3 * (len \div 4) - pad) |->
            LET k == ((i - 1) \div 3) + 1
                p == (i - 1) % 3
            IN  Chr((group(k) \div (256 ^ (2 - p))) % 256) ]

\* the prefix save puts before the base64 text of the -udta argument
UdtaArgPrefix ==
    << "0", ":", "t", "y", "p", "e", "=", "s", "t", "e", "m", ":",
       "s", "r", "c", "=", "b", "a", "s", "e", "6", "4", "," >>

\* the -udta argument save builds from self._metadata
UdtaArg(md) == UdtaArgPrefix \o B64Encode(JsonDumps(md))

\* the 8 bytes (box size and type) that precede the data in a dumped udta
\* side-file
UdtaHeader == << "0", "0", "0", "0", "s", "t", "e", "m" >>

\* what the multiplexer stores for a -udta argument, and the contents of the
\* side-file that -dump-udta writes for it
UdtaFile(arg) ==
    UdtaHeader \o B64Decode(SubSeq(arg, Len(UdtaArgPrefix) + 1, Len(arg)))

(***************************************************************************)
(* Tag values.  One record shape serves the values of the tags file (a     *)
(* string or an integer) and the values written onto the container.        *)
(***************************************************************************)
\* a Python str
Str(s) == [ t |-> "str", s |-> s, n |-> 0, m |-> 0, fmt |-> "" ]

\* a Python int
PyIntVal(n) == [ t |-> "int", s |-> <<>>, n |-> n, m |-> 0, fmt |-> "" ]

\* mutagen.mp4.MP4FreeForm(data, dataformat)
MP4FreeForm(data, fmt) == [ t |-> "freeform", s |-> data, n |-> 0, m |-> 0, fmt |-> fmt ]

\* [(n, m)], the value of the trkn tag
PairList(n, m) == [ t |-> "pairs", s |-> <<>>, n |-> n, m |-> m, fmt |-> "" ]

\* [n], the value of the tmpo tag
IntList(n) == [ t |-> "ints", s |-> <<>>, n |-> n, m |-> 0, fmt |-> "" ]

\* [MP4Cover(data, imageformat)], data standing for the bytes of the file at path
MP4Cover(path, fmt) == [ t |-> "cover", s |-> path, n |-> 0, m |-> 0, fmt |-> fmt ]

\* the outcome of a step that can raise: [ok, val] or [ok = FALSE, err]
Ok(v) == [ ok |-> TRUE, val |-> v, err |-> "none" ]

Raise(e) == [ ok |-> FALSE, val |-> PyIntVal(0), err |-> e ]

\* value.encode("utf-8"): only a str has the method; ASCII text is its own
\* UTF-8 encoding
Encode(v) ==
    IF v.t = "str" THEN Ok(v.s) ELSE [ ok |-> FALSE, val |-> <<>>, err |-> "AttributeError" ]

\* str(value)
PyStr(v) == IF v.t = "str" THEN Str(v.s) ELSE Str(StrOfNat(v.n))

\* int(value): ValueError on a text that is no decimal number
PyInt(v) ==
    IF v.t = "int" THEN [ ok |-> TRUE, val |-> v.n, err |-> "none" ]
    ELSE IF IsDecimal(v.s) THEN [ ok |-> TRUE, val |-> NatOfDigits(v.s, 0), err |-> "none" ]
    ELSE [ ok |-> FALSE, val |-> 0, err |-> "ValueError" ]

\* the image files that exist on disk, by their path as written in a tags file
CoverFiles == { << "c", ".", "p", "n", "g" >>, << "1", "0" >> }

(***************************************************************************)
(* The field-to-tag chain of StemCreator.save, in source order.  A rule is *)
(* one `if (field in self._tags)` statement: the field it tests, the tag   *)
(* key it assigns and the way it builds the value.  "(c)" stands for the   *)
(* byte 0xA9 of the well-known tag codes.                                  *)
(***************************************************************************)
Rule(field, key, kind) == [ field |-> field, key |-> key, kind |-> kind ]

TagRules ==
    << Rule("title", "(c)nam", "text"),
       Rule("artist", "(c)ART", "text"),
       Rule("release", "(c)alb", "text"),
       Rule("album_artist", "aART", "text"),
       Rule("remixer", "----:com.apple.iTunes:REMIXER", "freeform"),
       Rule("mix", "----:com.apple.iTunes:MIXER", "freeform"),
       Rule("producer", "----:com.apple.iTunes:PRODUCER", "freeform"),
       Rule("organization", "----:com.apple.iTunes:LABEL", "freeform"),
       Rule("publisher", "----:com.apple.iTunes:LABEL", "freeform"),
       Rule("label", "----:com.apple.iTunes:LABEL", "freeform"),
       Rule("genre", "(c)gen", "text"),
       Rule("style", "(c)gen", "text"),
       Rule("track", "trkn", "track"),
       Rule("track_no", "trkn", "track_no"),
       Rule("catalog_no", "----:com.apple.iTunes:CATALOGNUMBER", "freeform"),
       Rule("year", "(c)day", "text"),
       Rule("date", "(c)day", "text"),
       Rule("isrc", "----:com.apple.iTunes:ISRC", "isrc"),
       Rule("upc", "----:com.apple.iTunes:BARCODE", "upc"),
       Rule("cover", "covr", "cover"),
       Rule("description", "ldes", "text"),
       Rule("comment", "(c)cmt", "text"),
       Rule("bpm", "tmpo", "bpm"),
       Rule("initialkey", "----:com.apple.iTunes:initialkey", "freeform"),
       Rule("key", "----:com.apple.iTunes:KEY", "freeform"),
       Rule("album", "(c)alb", "text"),
       Rule("mood", "----:com.apple.iTunes:MOOD", "freeform"),
       Rule("grouping", "(c)grp", "text"),
       Rule("composer", "(c)wrt", "text"),
       Rule("barcode", "----:com.apple.iTunes:BARCODE", "upc"),
       Rule("lyrics", "(c)lyr", "text"),
       Rule("copyright", "cprt", "text"),
       Rule("url_discogs_artist_site", "----:com.apple.iTunes:URL_DISCOGS_ARTIST_SITE", "freeform"),
       Rule("www", "----:com.apple.iTunes:URL_DISCOGS_RELEASE_SITE", "freeform"),
       Rule("url_discogs_release_site", "----:com.apple.iTunes:URL_DISCOGS_RELEASE_SITE", "freeform"),
       Rule("youtube_id", "----:com.apple.iTunes:YouTube Id", "freeform"),
       Rule("beatport_id", "----:com.apple.iTunes:Beatport Id", "freeform"),
       Rule("qobuz_id", "----:com.apple.iTunes:Qobuz Id", "freeform"),
       Rule("discogs_release_id", "----:com.apple.iTunes:Discogs Id", "freeform"),
       Rule("media", "----:com.apple.iTunes:MEDIA", "freeform"),
       Rule("country", "----:com.apple.iTunes:COUNTRY", "freeform") >>

\* tags[key] = val
Put(t, key, val) ==
    [ k \in (DOMAIN t) \cup { key } |-> IF k = key THEN val ELSE t[k] ]

\* the value a rule assigns, or the exception its right-hand side raises
RuleValue(r, fields) ==
    LET v == fields[r.field]
    IN  CASE r.kind = "text" -> Ok(v)
          [] r.kind = "track" -> Ok(v)
          [] r.kind = "freeform" ->
                IF Encode(v).ok THEN Ok(MP4FreeForm(Encode(v).val, "UTF8"))
                ELSE Raise(Encode(v).err)
          [] r.kind = "isrc" ->
                IF Encode(v).ok THEN Ok(MP4FreeForm(Encode(v).val, "ISRC"))
                ELSE Raise(Encode(v).err)
          [] r.kind = "upc" -> Ok(MP4FreeForm(Encode(PyStr(v)).val, "UPC"))
          [] r.kind = "track_no" ->
                LET a == PyInt(v)
                    b == PyInt(fields["track_count"])
                IN  IF ~ a.ok THEN Raise(a.err)
                    ELSE IF ~ b.ok THEN Raise(b.err)
                    ELSE Ok(PairList(a.val, b.val))
          [] r.kind = "cover" ->
                IF v.t # "str" THEN Raise("OSError")
                ELSE IF v.s \notin CoverFiles THEN Raise("FileNotFoundError")
                ELSE Ok(MP4Cover(v.s, IF EndsWith(v.s, << "p", "n", "g" >>)
                                      THEN "PNG" ELSE "JPEG"))
          [] r.kind = "bpm" ->
                IF PyInt(v).ok THEN Ok(IntList(PyInt(v).val)) ELSE Raise(PyInt(v).err)

\* whether the guard of rule i holds: the field is present, and for the two
\* trkn rules track_count is present too
RuleFires(i, fields) ==
    /\ TagRules[i].field \in DOMAIN fields
    /\ TagRules[i].kind \in { "track", "track_no" } => "track_count" \in DOMAIN fields

\* the rules whose right-hand side raises
RaisingRules(fields) ==
    { i \in 1..Len(TagRules) : RuleFires(i, fields) /\ ~ RuleValue(TagRules[i], fields).ok }

\* the statements run in source order, so the chain ends at the first rule
\* that raises: its index, or 0 when none does
FirstRaising(fields) ==
    LET raising == RaisingRules(fields)
    IN  IF raising = {} THEN 0
        ELSE CHOOSE i \in raising : \A j \in raising : i <= j

\* the rules whose assignment `tags[key] = value` is executed
AssigningRules(fields) ==
    LET first == FirstRaising(fields)
    IN  { i \in 1..Len(TagRules) : RuleFires(i, fields) /\ (first = 0 \/ i < first) }

\* among the executed assignments to one key, the one whose value stands:
\* the last in source order
StandingRuleFirstWins(S) == CHOOSE i \in S : \A j \in S : i <= j

StandingRule(S) == CHOOSE i \in S : \A j \in S : j <= i

\* the marker tag written after the chain
StemMarker == Str(<< "S", "T", "E", "M" >>)

\* the state of the mapping: the in-memory tags, and the exception (with the
\* field whose rule raised it) once one is raised
MapState(t, e, f) == [ tags |-> t, err |-> e, errField |-> f ]

\* what tags.save(outputFilePath), the last statement of save, has written
\* onto the container when save ends: it is not reached once a rule raised
PersistedTagsOnError(mapped) == mapped.tags

PersistedTags(mapped) == IF mapped.err = "none" THEN mapped.tags ELSE <<>>

\* the in-memory tag object when the chain ends, starting from the tags
\* `existing` that mutagen.mp4.Open read, without the marker
ChainTags(existing, fields) ==
    LET assigning == AssigningRules(fields)
        rulesOf(k) == { i \in assigning : TagRules[i].key = k }
    IN  [ k \in (DOMAIN existing) \cup { TagRules[i].key : i \in assigning } |->
            IF rulesOf(k) = {} THEN existing[k]
            ELSE RuleValue(TagRules[StandingRule(rulesOf(k))], fields).val ]

\* a mapping that also writes every other field as a free-form tag named
\* after it
MapTagsOpenVocabulary(existing, fields) ==
    LET first == FirstRaising(fields)
        known == { TagRules[i].field : i \in 1..Len(TagRules) } \cup { "track_count" }
        extra == (DOMAIN fields) \ known
        chain == ChainTags(existing, fields)
    IN  IF first # 0
        THEN MapState(chain, RuleValue(TagRules[first], fields).err, TagRules[first].field)
        ELSE MapState([ k \in (DOMAIN chain) \cup extra \cup { "TAUT" } |->
                          IF k = "TAUT" THEN StemMarker
                          ELSE IF k \in extra THEN MP4FreeForm(PyStr(fields[k]).s, "UTF8")
                          ELSE chain[k] ],
                      "none", "")

\* the mapping of save, lines 227-354: the chain and, when no rule raised,
\* the marker
MapTags(existing, fields) ==
    LET first == FirstRaising(fields)
    IN  IF first # 0
        THEN MapState(ChainTags(existing, fields),
                      RuleValue(TagRules[first], fields).err, TagRules[first].field)
        ELSE MapState(Put(ChainTags(existing, fields), "TAUT", StemMarker), "none", "")

(***************************************************************************)
(* Paths and the file system.                                              *)
(***************************************************************************)
\* no path given (None)
NoPath == <<>>

\* stemOutExtension
stemOutExtension == ".m4a"

\* _supported_files_no_conversion
SupportedFilesNoConversion == { ".m4a", ".mp4", ".m4p" }

\* _supported_files_conversion
SupportedFilesConversion == { ".wav", ".wave", ".aif", ".aiff", ".flac" }

\* os.path.splitext(path): the last dotted suffix is the extension
SplitExt(path) ==
    IF Len(path) > 1
    THEN [ root |-> SubSeq(path, 1, Len(path) - 1), ext |-> path[Len(path)] ]
    ELSE [ root |-> path, ext |-> "" ]

\* the progress of one operation on the file system: the files and the
\* directories on disk, the files the operation created as temporaries, the
\* files it deleted, the transcoded paths so far and the exception raised
RunState(fs, ds, tmp, rm, outs, e) ==
    [ files |-> fs, dirs |-> ds, temp |-> tmp, removed |-> rm, outs |-> outs, err |-> e ]

\* _removeFile(path)
RemoveFile(run, path) ==
    IF path \in run.files
    THEN [ run EXCEPT !.files = @ \ { path }, !.removed = @ \cup { path } ]
    ELSE IF path \in run.dirs THEN [ run EXCEPT !.err = "RuntimeError" ]
    ELSE run

\* StemCreator._convertToFormat(trackPath), skipped once an exception is
\* raised; ffmpegOk tells whether the transcoder exits with status 0 (it
\* cannot when its input file is gone)
ConvertToFormat(run, trackPath, ffmpegOk) ==
    IF run.err # "none" THEN run
    ELSE IF SplitExt(trackPath).ext \in SupportedFilesNoConversion
         THEN [ run EXCEPT !.outs = Append(@, trackPath) ]
    ELSE IF SplitExt(trackPath).ext \in SupportedFilesConversion
         THEN LET newPath == Append(SplitExt(trackPath).root, ".m4a")
                  r == RemoveFile(run, newPath)
              IN  IF r.err # "none" THEN r
                  ELSE IF ffmpegOk /\ trackPath \in r.files
                       THEN [ r EXCEPT !.files = @ \cup { newPath },
                                       !.temp = @ \cup { newPath },
                                       !.outs = Append(@, newPath) ]
                  ELSE [ r EXCEPT !.err = "CalledProcessError" ]
    ELSE [ run EXCEPT !.err = "SystemExit" ]

RECURSIVE ConvertAll(_, _, _)
\* the conversions of save, the mixdown first and then the stems in order
ConvertAll(run, tracks, ffmpegOk) ==
    IF tracks = <<>> THEN run
    ELSE ConvertAll(ConvertToFormat(run, Head(tracks), ffmpegOk), Tail(tracks), ffmpegOk)

\* the path save writes the container to: lines 189-195
OutputFilePath(mixdown, outputFilePath) ==
    IF outputFilePath = NoPath
    THEN Append(Append(SplitExt(mixdown).root, ".stem"), stemOutExtension)
    ELSE Append(SplitExt(outputFilePath).root, stemOutExtension)

\* the side-file -dump-udta writes for a container: root + "_stem.udta"
UdtaPath(stemFile) == Append(SplitExt(stemFile).root, "_stem.udta")

(***************************************************************************)
(* The metadata file handed to StemCreator.                                *)
(***************************************************************************)
\* no metadata file
NoMetadataFile == [ kind |-> "none", stems |-> <<>> ]

\* a file json.load rejects
UnparsableFile == [ kind |-> "unparsable", stems |-> <<>> ]

\* a JSON object without a "stems" member
NoStemsFile == [ kind |-> "nostems", stems |-> <<>> ]

\* a JSON object {"stems": [...]}
StemsFile(stems) == [ kind |-> "dict", stems |-> stems ]

\* the outcome of StemCreator.__init__, lines 99-125: the exception raised,
\* or "none" and self._metadata
CreatorInit(tracks, mdFile) ==
    LET numStems == Len(tracks)
        \* metaData = [] unless a file is given
        isList == mdFile.kind = "none"
    IN  IF mdFile.kind = "unparsable"
        THEN [ err |-> "RuntimeError", metadata |-> [ stems |-> <<>> ] ]
        \* len(metaData["stems"]) on a list, or on a dict without the key
        ELSE IF isList THEN [ err |-> "TypeError", metadata |-> [ stems |-> <<>> ] ]
        ELSE IF mdFile.kind = "nostems"
             THEN [ err |-> "KeyError", metadata |-> [ stems |-> <<>> ] ]
        \* self._metadata is the dict: it has no extend method
        ELSE IF numStems > Len(mdFile.stems)
             THEN [ err |-> "AttributeError", metadata |-> [ stems |-> mdFile.stems ] ]
        ELSE [ err |-> "none", metadata |-> [ stems |-> mdFile.stems ] ]

(***************************************************************************)
(* The state.                                                              *)
(***************************************************************************)
VARIABLES
    pc,               \* "start", then how the last operation ended
    mixdownTrack,     \* argument of StemCreator: the mixdown path
    stemTracks,       \* argument of StemCreator: the stem paths
    metadataFile,     \* argument of StemCreator: the metadata file
    tagsFile,         \* argument of StemCreator: the parsed tags file ({} if none)
    outputArg,        \* argument of save: the output path, or NoPath
    tools,            \* whether each external tool exits with status 0
    metadata,         \* StemCreator._metadata
    tags,             \* StemCreator._tags
    files,            \* the files on disk
    dirs,             \* the directories on disk
    container,        \* the container save produced: its path, udta and tags
    temp,             \* the temporary files the last operation created
    removed,          \* the files the last operation deleted with _removeFile
    err,              \* the exception that ended the last operation, or "none"
    errField,         \* the tags field whose rule raised it, or ""
    viewerMetadata    \* StemMetadataViewer._metadata

vars ==
    << pc, mixdownTrack, stemTracks, metadataFile, tagsFile, outputArg, tools,
       metadata, tags, files, dirs, container, temp, removed, err, errField,
       viewerMetadata >>

args == << mixdownTrack, stemTracks, metadataFile, tagsFile, outputArg, tools >>

NoContainer == [ exists |-> FALSE, path |-> NoPath, udta |-> <<>>, tags |-> <<>> ]

\* a container on disk that this program did not build, and the udta
\* side-file -dump-udta writes for it: the header, then bytes that are no JSON
ForeignFile == << "x", ".m4a" >>

ForeignUdta == UdtaHeader \o << "<", "x", "m", "l", ">" >>

\* fileObj.seek(8)
UdtaSeek == 8

(***************************************************************************)
(* The operations.                                                         *)
(***************************************************************************)
\* StemCreator(mixdownTrack, stemTracks, fileFormat, metadataFile, tags)
Construct ==
    /\ pc = "start"
    /\ LET c == CreatorInit(stemTracks, metadataFile)
       IN  /\ pc' = IF c.err = "none" THEN "constructed" ELSE "ctorFailed"
           /\ err' = c.err
           /\ metadata' = IF c.err = "none" THEN c.metadata ELSE metadata
    /\ tags' = tagsFile
    /\ UNCHANGED << args, files, dirs, container, temp, removed, errField, viewerMetadata >>

\* StemCreator.save(outputFilePath)
Save ==
    /\ pc = "constructed"
    /\ LET out == OutputFilePath(mixdownTrack, outputArg)
           r0 == RemoveFile(RunState(files, dirs, {}, {}, <<>>, "none"), out)
           r1 == ConvertAll(r0, << mixdownTrack >> \o stemTracks, tools.ffmpeg)
           \* the multiplexer needs every transcoded input
           muxOk == tools.mp4box /\ \A i \in 1..Len(r1.outs) : r1.outs[i] \in r1.files
           r2 == IF r1.err # "none" THEN r1
                 ELSE IF muxOk THEN [ r1 EXCEPT !.files = @ \cup { out } ]
                 ELSE [ r1 EXCEPT !.err = "CalledProcessError" ]
           built == r2.err = "none"
           st == MapTags(<<>>, tags)
       IN  /\ files' = r2.files
           /\ temp' = r2.temp
           /\ removed' = r2.removed
           /\ err' = IF built THEN st.err ELSE r2.err
           /\ errField' = IF built THEN st.errField ELSE ""
           /\ pc' = IF built /\ st.err = "none" THEN "saved" ELSE "saveFailed"
           /\ container' =
                  IF built
                  THEN [ exists |-> TRUE, path |-> out, udta |-> UdtaArg(metadata),
                         tags |-> PersistedTags(st) ]
                  ELSE NoContainer
    /\ UNCHANGED << args, metadata, tags, dirs, viewerMetadata >>

\* StemMetadataViewer(stemFile)
View(stemFile) ==
    /\ pc \in { "saved", "saveFailed" }
    /\ LET udtaFile == UdtaPath(stemFile)
           dumped == tools.dump /\ stemFile \in files
           content == IF container.exists /\ stemFile = container.path
                      THEN UdtaFile(container.udta) ELSE ForeignUdta
           loaded == JsonLoad(content, UdtaSeek + 1)
       IN  /\ removed' = {}
           /\ temp' = IF dumped THEN { udtaFile } ELSE {}
           /\ err' = IF ~ dumped THEN "CalledProcessError"
                     ELSE IF ~ loaded.ok THEN "ValueError" ELSE "none"
           /\ pc' = IF dumped /\ loaded.ok THEN "viewed" ELSE "viewFailed"
           \* os.remove(udtaFile) runs only after json.load returned
           /\ files' = IF dumped /\ ~ loaded.ok THEN files \cup { udtaFile } ELSE files
           /\ viewerMetadata' = IF dumped /\ loaded.ok THEN loaded.val ELSE viewerMetadata
    /\ UNCHANGED << args, metadata, tags, dirs, container, errField >>

\* the containers the viewer is pointed at
ViewTargets == { ForeignFile } \cup (IF container.exists THEN { container.path } ELSE {})

Next ==
    \/ Construct
    \/ Save
    \/ \E stemFile \in ViewTargets : View(stemFile)

(***************************************************************************)
(* Initial states.                                                         *)
(***************************************************************************)
\* what does not depend on the arguments
InitRest ==
    /\ pc = "start"
    /\ metadata = [ stems |-> <<>> ]
    /\ tags = <<>>
    /\ container = NoContainer
    /\ temp = {}
    /\ removed = {}
    /\ err = "none"
    /\ errField = ""
    /\ viewerMetadata = [ stems |-> <<>> ]

AllToolsWork == [ ffmpeg |-> TRUE, mp4box |-> TRUE, dump |-> TRUE ]

\* every tool works, or one of them exits with an error
ToolOutcomes ==
    { AllToolsWork,
      [ AllToolsWork EXCEPT !.ffmpeg = FALSE ],
      [ AllToolsWork EXCEPT !.mp4box = FALSE ],
      [ AllToolsWork EXCEPT !.dump = FALSE ] }

\* stem entries of supplied metadata files; the second name holds a quote
\* and a backslash
SuppliedEntries ==
    { StemEntry(<< "K", "i", "c", "k" >>, << "#", "F", "F", "0", "0", "0", "0" >>),
      StemEntry(<< "a", "\"", "\\", "b" >>, << "#", "1", "2", "3", "4", "5", "6" >>) }

RECURSIVE SeqsUpTo(_, _)
\* the sequences of at most n elements of S
SeqsUpTo(S, n) ==
    IF n = 0 THEN { <<>> }
    ELSE LET prev == SeqsUpTo(S, n - 1)
         IN  prev \cup { Append(q, x) : q \in prev, x \in S }

MetadataFiles ==
    { NoMetadataFile, UnparsableFile, NoStemsFile }
        \cup { StemsFile(q) : q \in SeqsUpTo(SuppliedEntries, MaxSupplied) }

\* stem paths that need no transcoding
StemPath(i) == << "s", StrOfNat(i)[1], ".m4a" >>

\* the arguments vary in the stem count and the metadata file
InitMerge ==
    /\ InitRest
    /\ mixdownTrack = << "mix", ".m4a" >>
    /\ \E n \in 0..MaxStems : stemTracks = [ i \in 1..n |-> StemPath(i) ]
    /\ metadataFile \in MetadataFiles
    /\ tagsFile = <<>>
    /\ outputArg = NoPath
    /\ tools \in ToolOutcomes
    /\ files = { mixdownTrack, ForeignFile } \cup { stemTracks[i] : i \in 1..Len(stemTracks) }
    /\ dirs = {}

SpecMerge == InitMerge /\ [][Next]_vars

\* the fields the chain of save reads
KnownFields == { TagRules[i].field : i \in 1..Len(TagRules) } \cup { "track_count" }

\* a field outside that vocabulary
UnknownFields == { "foo" }

\* a text that is no number, and an integer
PlainValues == { Str(<< "f", "a", "s", "t" >>), PyIntVal(7) }

\* a decimal text
DecimalText == Str(<< "1", "0" >>)

\* the path of a PNG image
PngPath == Str(<< "c", ".", "p", "n", "g" >>)

\* the fields of one output tag: the fields whose rules assign the key, and
\* track_count for trkn
FieldsOfKey(key) ==
    { TagRules[i].field : i \in { j \in 1..Len(TagRules) : TagRules[j].key = key } }
        \cup (IF key = "trkn" THEN { "track_count" } ELSE {})

TagKeys == { TagRules[i].key : i \in 1..Len(TagRules) }

\* the values a field takes in the tags files of the model: a field that
\* int() or str() reads, and a field that shares a free-form tag with
\* another, also takes a decimal text; cover also takes the PNG path
FieldValues(field) ==
    IF field = "cover" THEN PlainValues \cup { DecimalText, PngPath }
    ELSE IF field \in { "bpm", "track_no", "track_count", "upc", "barcode",
                        "organization", "publisher", "label",
                        "www", "url_discogs_release_site" }
         THEN PlainValues \cup { DecimalText }
    ELSE PlainValues

\* the tags files with exactly the fields S
Assignments(S) ==
    { f \in [ S -> PlainValues \cup { DecimalText, PngPath } ] :
        \A k \in S : f[k] \in FieldValues(k) }

RECURSIVE SubsetsUpTo(_, _)
\* the subsets of S of at most n elements
SubsetsUpTo(S, n) ==
    IF n = 0 THEN { {} }
    ELSE LET prev == SubsetsUpTo(S, n - 1)
         IN  prev \cup { T \cup { x } : T \in prev, x \in S }

\* the tags files of the model: any MaxTagFields fields, and any of the
\* fields of one output tag
TagsFiles ==
    UNION { Assignments(S) :
            S \in SubsetsUpTo(KnownFields \cup UnknownFields, MaxTagFields)
                    \cup UNION { SUBSET FieldsOfKey(key) : key \in TagKeys } }

\* the arguments vary in the tags file
InitTags ==
    /\ InitRest
    /\ mixdownTrack = << "mix", ".m4a" >>
    /\ stemTracks = << >>
    /\ metadataFile = StemsFile(<< >>)
    /\ tagsFile \in TagsFiles
    /\ outputArg = NoPath
    /\ tools = AllToolsWork
    /\ files = { mixdownTrack, ForeignFile }
    /\ dirs = {}

\* the build alone
NextBuild ==
    \/ Construct
    \/ Save

SpecTags == InitTags /\ [][NextBuild]_vars

\* the track paths of the runs that vary the paths
TrackPaths ==
    { << "a", ".wav" >>, << "a", ".m4a" >>, << "b", ".wav" >>, << "a", ".stem", ".m4a" >> }

\* the arguments vary in the paths, the directories on disk and the tools
InitPaths ==
    /\ InitRest
    /\ mixdownTrack \in { << "a", ".wav" >>, << "a", ".m4a" >>, << "a", ".mp3" >> }
    /\ stemTracks \in SeqsUpTo(TrackPaths, MaxPathStems)
    /\ metadataFile =
           StemsFile([ i \in 1..Len(stemTracks) |-> DefaultMetadata[((i - 1) % 4) + 1] ])
    /\ tagsFile \in { << >>, [ title |-> DecimalText, bpm |-> Str(<< "f", "a", "s", "t" >>) ] }
    /\ outputArg \in { NoPath, << "a", ".m4a" >>, << "d", ".x" >> }
    /\ tools \in ToolOutcomes
    /\ files = { mixdownTrack, ForeignFile } \cup { stemTracks[i] : i \in 1..Len(stemTracks) }
    /\ dirs \in { {}, { << "d", ".m4a" >> } }

SpecPaths == InitPaths /\ [][Next]_vars

(***************************************************************************)
(* Properties of the metadata merge, checked under SpecMerge.              *)
(***************************************************************************)
\* the construction of a StemCreator has been attempted
Attempted == pc # "start"

\* a metadata source that is absent or well-formed
WellFormedSource == metadataFile.kind \in { "none", "dict" }

NumStems == Len(stemTracks)

NumSupplied == Len(metadataFile.stems)

BlackColor == << "#", "0", "0", "0", "0", "0", "0" >>

\* table is the merge of section 4.1 for numStems tracks: the supplied
\* entries (the first numStems of them), then the default entries from
\* position numSupplied on, then placeholders Stem_<n> of color #000000 with
\* strictly increasing n
IsMergeOf(table, numStems, supplied) ==
    LET numSupplied == Len(supplied)
        numDefaults == Len(DefaultMetadata)
        upTo == IF numStems < numDefaults THEN numStems ELSE numDefaults
        fixed == IF numSupplied >= numStems THEN SubSeq(supplied, 1, numStems)
                 ELSE IF numSupplied >= upTo THEN supplied
                 ELSE supplied \o SubSeq(DefaultMetadata, numSupplied + 1, upTo)
        rest == (Len(fixed) + 1)..numStems
    IN  /\ Len(table) = numStems
        /\ SubSeq(table, 1, Len(fixed)) = fixed
        /\ \E n \in [ rest -> 0..(numStems + numDefaults) ] :
              \A j \in rest :
                 /\ table[j] = StemEntry(<< "S", "t", "e", "m", "_" >> \o StrOfNat(n[j]),
                                         BlackColor)
                 /\ j + 1 \in rest => n[j] < n[j + 1]

\* C1: for every stem count and every supplied-metadata count (none supplied
\* counting as 0), the construction completes without an error and the table
\* has exactly one entry per stem track.
C1_OneEntryPerStem ==
    (Attempted /\ WellFormedSource) =>
        /\ pc # "ctorFailed"
        /\ Len(metadata.stems) = NumStems

\* C2: when at least as many entries are supplied as there are stems, the
\* table is exactly the first NumStems supplied entries, and it is that
\* table which save serializes into the container.
C2_TruncatedToStems ==
    (Attempted /\ metadataFile.kind = "dict" /\ NumSupplied >= NumStems) =>
        /\ pc # "ctorFailed"
        /\ metadata.stems = SubSeq(metadataFile.stems, 1, NumStems)
        /\ container.exists =>
              container.udta = UdtaArg([ stems |-> SubSeq(metadataFile.stems, 1, NumStems) ])

\* C3: when fewer entries are supplied than there are stems, the table is the
\* supplied entries, then the defaults from position NumSupplied up to
\* min(NumStems, 4), then placeholders Stem_<n> of color #000000 for the
\* remaining positions only, with strictly increasing n.
C3_PaddedFromDefaults ==
    (Attempted /\ WellFormedSource /\ NumSupplied < NumStems) =>
        /\ pc # "ctorFailed"
        /\ IsMergeOf(metadata.stems, NumStems, metadataFile.stems)

\* C4: the metadata a StemMetadataViewer reads from the container that save
\* built is the merge of the tracks and the supplied metadata.
C4_RoundTripIsMerge ==
    pc = "viewed" => IsMergeOf(viewerMetadata.stems, NumStems, metadataFile.stems)

(***************************************************************************)
(* Properties of the tag mapping, checked under SpecTags.                  *)
(***************************************************************************)
\* save has ended
SaveEnded == pc \in { "saved", "saveFailed" }

\* the value of the first of the fields in `order`, read from the last, that
\* the tags file holds
RECURSIVE LastPresent(_, _)
LastPresent(order, fields) ==
    IF order[Len(order)] \in DOMAIN fields THEN fields[order[Len(order)]]
    ELSE LastPresent(SubSeq(order, 1, Len(order) - 1), fields)

\* the aliased output tags of C5: the key, its alias fields in the order of
\* application, and the form of the value
AliasTable ==
    << [ key |-> "----:com.apple.iTunes:LABEL",
         order |-> << "organization", "publisher", "label" >>, form |-> "UTF8" ],
       [ key |-> "(c)gen", order |-> << "genre", "style" >>, form |-> "text" ],
       [ key |-> "(c)day", order |-> << "year", "date" >>, form |-> "text" ],
       [ key |-> "----:com.apple.iTunes:BARCODE",
         order |-> << "upc", "barcode" >>, form |-> "UPC" ],
       [ key |-> "----:com.apple.iTunes:URL_DISCOGS_RELEASE_SITE",
         order |-> << "www", "url_discogs_release_site" >>, form |-> "UTF8" ] >>

\* the value an alias writes: the field's value as it is, or its text as a
\* free-form value of the given subtype
AliasValue(form, v) ==
    IF form = "text" THEN v
    ELSE [ t |-> "freeform", s |-> IF v.t = "str" THEN v.s ELSE StrOfNat(v.n),
           n |-> 0, m |-> 0, fmt |-> form ]

\* C5: on every completed mapping each aliased output tag carries exactly one
\* value, that of the present alias applied last in the order organization,
\* publisher, label / genre, style / year, date / upc, barcode / www,
\* url_discogs_release_site; it is absent when no alias is present.
C5_AliasLastAppliedWins ==
    pc = "saved" =>
        \A a \in 1..Len(AliasTable) :
            LET alias == AliasTable[a]
                present == { i \in 1..Len(alias.order) : alias.order[i] \in DOMAIN tags }
            IN  IF present = {} THEN alias.key \notin DOMAIN container.tags
                ELSE /\ alias.key \in DOMAIN container.tags
                     /\ container.tags[alias.key]
                            = AliasValue(alias.form, LastPresent(alias.order, tags))

\* a build with label, publisher and organization all set to texts, label
\* differing from the other two, has completed
C5_Witness ==
    /\ pc = "saved"
    /\ { "organization", "publisher", "label" } \subseteq DOMAIN tags
    /\ tags["label"] # tags["organization"]
    /\ tags["label"] # tags["publisher"]
    /\ container.tags["----:com.apple.iTunes:LABEL"].s = tags["label"].s

\* the value of a field read as an integer: [ok, n]
AsInteger(v) ==
    IF v.t = "int" THEN [ ok |-> TRUE, n |-> v.n ]
    ELSE IF IsDecimal(v.s) THEN [ ok |-> TRUE, n |-> NatOfDigits(v.s, 0) ]
    ELSE [ ok |-> FALSE, n |-> 0 ]

\* the pair (track, track_count) of two field values, passed through
PassedPair(a, b) == [ t |-> "pair", first |-> a, second |-> b ]

\* C6: the track-number tag is written only when both halves of a pair are
\* present: for track + track_count the pair is passed through, for track_no
\* + track_count it is (int(track_no), int(track_count)), the track_no rule
\* overwriting the track rule; one half alone yields no tag and no error.
C6_TrackNumberPairs ==
    LET has(f) == f \in DOMAIN tags
    IN  /\ (pc = "saved" /\ has("track_no") /\ has("track_count")) =>
               container.tags["trkn"]
                   = PairList(AsInteger(tags["track_no"]).n, AsInteger(tags["track_count"]).n)
        /\ (pc = "saved" /\ has("track") /\ has("track_count") /\ ~ has("track_no")) =>
               container.tags["trkn"] = PassedPair(tags["track"], tags["track_count"])
        /\ (pc = "saved" /\ (~ has("track_count") \/ (~ has("track") /\ ~ has("track_no")))) =>
               "trkn" \notin DOMAIN container.tags
        /\ (SaveEnded /\ ~ has("track_count")) => errField \notin { "track", "track_no" }

\* C7: a numeric bpm is written as the tempo tag with its integer value; a
\* bpm that cannot be coerced to an integer aborts the build with a value
\* error raised at the bpm rule (unless an earlier rule raised), and nothing
\* is then persisted onto the container: no tag mapped before it, no marker.
C7_BpmCoercedOrAborted ==
    (SaveEnded /\ "bpm" \in DOMAIN tags) =>
        IF AsInteger(tags["bpm"]).ok
        THEN pc = "saved" => /\ "tmpo" \in DOMAIN container.tags
                             /\ container.tags["tmpo"] = IntList(AsInteger(tags["bpm"]).n)
        ELSE /\ pc = "saveFailed"
             /\ err # "none"
             /\ errField = "bpm" => err = "ValueError"
             /\ DOMAIN container.tags = {}

\* a build whose tags file holds a title and a bpm that is no number has
\* ended: the container is built, the bpm rule raised, no tag is persisted
C7_Witness ==
    /\ pc = "saveFailed"
    /\ DOMAIN tags = { "title", "bpm" }
    /\ ~ AsInteger(tags["bpm"]).ok
    /\ errField = "bpm"
    /\ err = "ValueError"
    /\ container.exists
    /\ DOMAIN container.tags = {}

\* the tags file without its unknown fields
KnownPart(fields) == [ k \in (DOMAIN fields) \cap KnownFields |-> fields[k] ]

\* C8: the stem marker is written on every completed mapping; a tags file of
\* unknown fields only yields exactly the marker and no error; and the
\* unknown fields of a tags file never change what is written nor whether an
\* error is raised.
C8_MarkerAlwaysUnknownIgnored ==
    /\ pc = "saved" =>
          /\ "TAUT" \in DOMAIN container.tags
          /\ container.tags["TAUT"] = StemMarker
    /\ (SaveEnded /\ (DOMAIN tags) \cap KnownFields = {}) =>
          /\ pc = "saved"
          /\ DOMAIN container.tags = { "TAUT" }
    /\ SaveEnded =>
          /\ container.tags = PersistedTags(MapTags(<<>>, KnownPart(tags)))
          /\ err = MapTags(<<>>, KnownPart(tags)).err

\* a build whose tags file holds an unknown field beside a title has
\* completed: the title and the marker are written, and nothing else
C8_Witness ==
    /\ pc = "saved"
    /\ DOMAIN tags = { "foo", "title" }
    /\ DOMAIN container.tags = { "(c)nam", "TAUT" }

(***************************************************************************)
(* Properties of the file handling, checked under SpecPaths.               *)
(***************************************************************************)
\* an operation (a build or a read) has ended
OperationEnded == pc \in { "saved", "saveFailed", "viewed", "viewFailed" }

\* C9: whenever a build or a read ends, by success or by any failure, every
\* transcoded track file and every extracted side-file it created has been
\* deleted.
C9_TemporariesDeleted == OperationEnded => temp \cap files = {}

\* the input tracks of the build
InputTracks == { mixdownTrack } \cup { stemTracks[i] : i \in 1..Len(stemTracks) }

\* C10: a build never deletes one of its own input tracks, neither when it
\* clears the output path nor when it clears a transcode target.
C10_InputsNeverRemoved == SaveEnded => removed \cap InputTracks = {}

====
